---- MODULE Spec2Model ----
(***************************************************************************)
(* Model of the 2-of-2 multisig lock script (contracts/2of2/src/index.ts). *)
(*                                                                         *)
(* One behaviour is one verification run: the environment supplies the     *)
(* script args (config buffer), the witness lock (proof buffer) and the    *)
(* transaction hash; main() loads and validates them, verifies signature 1 *)
(* and then signature 2, and the process exits with main()'s return value. *)
(* Buffers are sequences of bytes with the source's lengths and offsets    *)
(* (buffer offset o is sequence position o + 1).                           *)
(*                                                                         *)
(* The module also models the SnakeGame component of the frontend: the     *)
(* snake game (GameSpec) and its payment channel and theme store           *)
(* (ChannelSpec).  The lock script and the component share no state; each  *)
(* specification leaves the variables of the other parts as they are.      *)
(***************************************************************************)
EXTENDS Integers, Sequences, FiniteSets, TLC

(***************************************************************************)
(* Bounds of the model.                                                    *)
(***************************************************************************)
\* buffer lengths range over expected - MaxDelta .. expected + MaxDelta
MaxDelta == 1
\* selector bytes range over 0 .. MaxSel
MaxSel == 2
\* recovery-id bytes range over {0, 1, 3} and 4 .. MaxRecId
MaxRecId == 4
\* registered key holders are 1 .. NumKeys
NumKeys == 2
\* the lock script is run at most MaxRuns times one after the other
MaxRuns == 2
\* the side of the board of the snake game (20 in the source)
GRID_SIZE == 3
\* the snake stops growing at MaxSnake segments
MaxSnake == 3

(***************************************************************************)
(* Script args layout constants.                                           *)
(***************************************************************************)
SCRIPT_ARGS_PREFIX_LENGTH == 2
CKB_JS_VM_CODE_HASH_LENGTH == 32
HASH_TYPE_LENGTH == 1
THRESHOLD_LENGTH == 1
PUBKEY_COUNT_LENGTH == 1
PUBKEY_HASH_LENGTH == 20

PUBKEY_HASH_START_OFFSET ==
    SCRIPT_ARGS_PREFIX_LENGTH + CKB_JS_VM_CODE_HASH_LENGTH + HASH_TYPE_LENGTH
        + THRESHOLD_LENGTH + PUBKEY_COUNT_LENGTH
FIRST_PUBKEY_HASH_OFFSET == PUBKEY_HASH_START_OFFSET
\* mutant: the second hash is read where the first one is
SECOND_PUBKEY_HASH_OFFSET_SameAsFirst == FIRST_PUBKEY_HASH_OFFSET
SECOND_PUBKEY_HASH_OFFSET == FIRST_PUBKEY_HASH_OFFSET + PUBKEY_HASH_LENGTH

(***************************************************************************)
(* Witness data layout constants.                                          *)
(***************************************************************************)
SIGNATURE_LENGTH == 65
PUBKEY_INDEX_LENGTH == 1
WITNESS_DATA_TOTAL_LENGTH == SIGNATURE_LENGTH * 2 + PUBKEY_INDEX_LENGTH * 2

FIRST_SIGNATURE_OFFSET == 0
\* mutant: the second signature starts where the first payload ends
SECOND_SIGNATURE_OFFSET_AfterPayload == SIGNATURE_LENGTH - 1
SECOND_SIGNATURE_OFFSET == SIGNATURE_LENGTH
FIRST_PUBKEY_INDEX_OFFSET == SIGNATURE_LENGTH * 2
SECOND_PUBKEY_INDEX_OFFSET == FIRST_PUBKEY_INDEX_OFFSET + PUBKEY_INDEX_LENGTH

SIGNATURE_DATA_LENGTH == 64
RECOVERY_ID_OFFSET == 64
BLAKE160_HASH_LENGTH == 20

(***************************************************************************)
(* Contract exit codes.                                                    *)
(***************************************************************************)
SUCCESS_CODE == 0
INVALID_SIGNATURE == 1
INVALID_SCRIPT_ARGS_LENGTH == 2
INVALID_WITNESS_DATA_LENGTH == 3
INVALID_PUBKEY_INDEX == 4
SIGNATURE_RECOVERY_FAILED == 5

FIRST_PUBKEY_INDEX == 0
SECOND_PUBKEY_INDEX == 1

EXPECTED_SCRIPT_ARGS_LENGTH == PUBKEY_HASH_START_OFFSET + PUBKEY_HASH_LENGTH * 2
EXPECTED_WITNESS_DATA_LENGTH == WITNESS_DATA_TOTAL_LENGTH

(***************************************************************************)
(* Byte buffers.                                                           *)
(***************************************************************************)
Min(a, b) == IF a < b THEN a ELSE b

\* Uint8Array.prototype.slice(start, end) for 0 <= start <= end:
\* a fresh array holding the bytes at offsets start .. min(end, length) - 1
Slice(buf, start, end) ==
    LET stop == Min(end, Len(buf))
    IN  IF stop <= start THEN << >>
        ELSE [i \in 1..(stop - start) |-> buf[start + i]]

\* buf[offset]
ByteAt(buf, offset) == buf[offset + 1]

\* bytesEq(a, b) of @ckb-js-std/core: same length and same bytes
bytesEq(a, b) == Len(a) = Len(b) /\ \A i \in 1..Len(a) : a[i] = b[i]

\* the null returned by recoverPublicKey; a recovered key has 65 bytes
Null == << >>

\* the exit code of a run that has not returned yet
NoCode == -1

(***************************************************************************)
(* The primitives of the execution environment.  They are outside the      *)
(* script; the model gives them a small deterministic stand-in.            *)
(*                                                                         *)
(* A key holder k has the public key object k.  Recovery from a payload    *)
(* signed by k yields k under the recovery id the signature was made with  *)
(* (ValidRecId(k)) when the message hash is the signed one, and some other *)
(* curve point otherwise; it throws on a malformed payload (signer byte 0) *)
(* and on recovery ids 2 and 3.  Of a recovery id outside 0..3 the         *)
(* primitive is taken to read the low two bits.                            *)
(***************************************************************************)
\* the recovery id under which the signature of key holder s recovers s
ValidRecId(s) == s % 2

\* the 32-byte transaction hash with tag t
TxHash(t) == [i \in 1..32 |-> (t + 2 * i) % 256]

\* the 64-byte recoverable-signature payload of signer s over hash h
SigData(s, h) ==
    [i \in 1..SIGNATURE_DATA_LENGTH |->
        IF i = 1 THEN s ELSE IF i = 2 THEN h[1] ELSE (3 * s + i) % 256]

\* thrown by secp256k1.recover
Throws == -1

\* bindings.secp256k1.recover(signature_data, recovery_id, message_hash):
\* the recovered public key object, or Throws
secp256k1_recover(signature_data, recovery_id, message_hash) ==
    LET s == signature_data[1]
        r == recovery_id % 4
    IN  IF s = 0 \/ r >= 2 THEN Throws
        ELSE IF r = ValidRecId(s) /\ signature_data[2] = message_hash[1] THEN s
        ELSE IF r = ValidRecId(s) THEN s + 2 * NumKeys
        ELSE s + NumKeys

\* bindings.secp256k1.serializePubkey(pubkey, false): 65 bytes, 0x04 first
secp256k1_serializePubkey(pubkey) ==
    [i \in 1..65 |-> IF i = 1 THEN 4 ELSE (16 * pubkey + i) % 256]

\* hashCkb(data): the 32-byte content hash
hashCkb(data) == [i \in 1..32 |-> (data[2] + 5 * i) % 256]

(***************************************************************************)
(* The functions of the script.                                            *)
(***************************************************************************)
\* mutant: the distinctness test is left out
validatePubkeyIndices_NoDistinct(indices) ==
    IF indices[1] > SECOND_PUBKEY_INDEX \/ indices[2] > SECOND_PUBKEY_INDEX
    THEN INVALID_PUBKEY_INDEX
    ELSE SUCCESS_CODE

\* mutant: only the first index is range-checked
validatePubkeyIndices_FirstOnly(indices) ==
    IF indices[1] > SECOND_PUBKEY_INDEX
    THEN INVALID_PUBKEY_INDEX
    ELSE IF indices[1] = indices[2]
    THEN INVALID_PUBKEY_INDEX
    ELSE SUCCESS_CODE

\* mutant: equal indices are reported with the code of an invalid signature
validatePubkeyIndices_EqualAsSignature(indices) ==
    IF indices[1] > SECOND_PUBKEY_INDEX \/ indices[2] > SECOND_PUBKEY_INDEX
    THEN INVALID_PUBKEY_INDEX
    ELSE IF indices[1] = indices[2]
    THEN INVALID_SIGNATURE
    ELSE SUCCESS_CODE

\* mutant: the first signature has to be the first key's
validatePubkeyIndices_Ordered(indices) ==
    IF indices[1] > SECOND_PUBKEY_INDEX \/ indices[2] > SECOND_PUBKEY_INDEX
    THEN INVALID_PUBKEY_INDEX
    ELSE IF indices[1] >= indices[2]
    THEN INVALID_PUBKEY_INDEX
    ELSE SUCCESS_CODE

validatePubkeyIndices(indices) ==
    IF indices[1] > SECOND_PUBKEY_INDEX \/ indices[2] > SECOND_PUBKEY_INDEX
    THEN INVALID_PUBKEY_INDEX
    ELSE IF indices[1] = indices[2]
    THEN INVALID_PUBKEY_INDEX
    ELSE SUCCESS_CODE

\* mutant: the script args length is compared with <= instead of <
loadAndValidateInputs_LengthLE(args, lock) ==
    IF Len(args) <= EXPECTED_SCRIPT_ARGS_LENGTH
    THEN [isNumber |-> TRUE, code |-> INVALID_SCRIPT_ARGS_LENGTH]
    ELSE
    LET hashes == << Slice(args, FIRST_PUBKEY_HASH_OFFSET,
                           FIRST_PUBKEY_HASH_OFFSET + PUBKEY_HASH_LENGTH),
                     Slice(args, SECOND_PUBKEY_HASH_OFFSET,
                           SECOND_PUBKEY_HASH_OFFSET + PUBKEY_HASH_LENGTH) >>
    IN  IF Len(lock) # EXPECTED_WITNESS_DATA_LENGTH
        THEN [isNumber |-> TRUE, code |-> INVALID_WITNESS_DATA_LENGTH]
        ELSE
        LET sigs == << Slice(lock, FIRST_SIGNATURE_OFFSET,
                             FIRST_SIGNATURE_OFFSET + SIGNATURE_LENGTH),
                       Slice(lock, SECOND_SIGNATURE_OFFSET,
                             SECOND_SIGNATURE_OFFSET + SIGNATURE_LENGTH) >>
            indices == << ByteAt(lock, FIRST_PUBKEY_INDEX_OFFSET),
                          ByteAt(lock, SECOND_PUBKEY_INDEX_OFFSET) >>
            validationResult == validatePubkeyIndices(indices)
        IN  IF validationResult # SUCCESS_CODE
            THEN [isNumber |-> TRUE, code |-> validationResult]
            ELSE [isNumber |-> FALSE, pubkeyHashes |-> hashes,
                  signatures |-> sigs, pubkeyIndices |-> indices]

\* mutant: a witness longer than expected is let through
loadAndValidateInputs_LongLockAccepted(args, lock) ==
    IF Len(args) < EXPECTED_SCRIPT_ARGS_LENGTH
    THEN [isNumber |-> TRUE, code |-> INVALID_SCRIPT_ARGS_LENGTH]
    ELSE
    LET hashes == << Slice(args, FIRST_PUBKEY_HASH_OFFSET,
                           FIRST_PUBKEY_HASH_OFFSET + PUBKEY_HASH_LENGTH),
                     Slice(args, SECOND_PUBKEY_HASH_OFFSET,
                           SECOND_PUBKEY_HASH_OFFSET + PUBKEY_HASH_LENGTH) >>
    IN  IF Len(lock) < EXPECTED_WITNESS_DATA_LENGTH
        THEN [isNumber |-> TRUE, code |-> INVALID_WITNESS_DATA_LENGTH]
        ELSE
        LET sigs == << Slice(lock, FIRST_SIGNATURE_OFFSET,
                             FIRST_SIGNATURE_OFFSET + SIGNATURE_LENGTH),
                       Slice(lock, SECOND_SIGNATURE_OFFSET,
                             SECOND_SIGNATURE_OFFSET + SIGNATURE_LENGTH) >>
            indices == << ByteAt(lock, FIRST_PUBKEY_INDEX_OFFSET),
                          ByteAt(lock, SECOND_PUBKEY_INDEX_OFFSET) >>
            validationResult == validatePubkeyIndices(indices)
        IN  IF validationResult # SUCCESS_CODE
            THEN [isNumber |-> TRUE, code |-> validationResult]
            ELSE [isNumber |-> FALSE, pubkeyHashes |-> hashes,
                  signatures |-> sigs, pubkeyIndices |-> indices]

\* mutant: the witness length is validated before the script args length
loadAndValidateInputs_WitnessFirst(args, lock) ==
    IF Len(lock) # EXPECTED_WITNESS_DATA_LENGTH
    THEN [isNumber |-> TRUE, code |-> INVALID_WITNESS_DATA_LENGTH]
    ELSE IF Len(args) < EXPECTED_SCRIPT_ARGS_LENGTH
    THEN [isNumber |-> TRUE, code |-> INVALID_SCRIPT_ARGS_LENGTH]
    ELSE
    LET hashes == << Slice(args, FIRST_PUBKEY_HASH_OFFSET,
                           FIRST_PUBKEY_HASH_OFFSET + PUBKEY_HASH_LENGTH),
                     Slice(args, SECOND_PUBKEY_HASH_OFFSET,
                           SECOND_PUBKEY_HASH_OFFSET + PUBKEY_HASH_LENGTH) >>
        sigs == << Slice(lock, FIRST_SIGNATURE_OFFSET,
                         FIRST_SIGNATURE_OFFSET + SIGNATURE_LENGTH),
                   Slice(lock, SECOND_SIGNATURE_OFFSET,
                         SECOND_SIGNATURE_OFFSET + SIGNATURE_LENGTH) >>
        indices == << ByteAt(lock, FIRST_PUBKEY_INDEX_OFFSET),
                      ByteAt(lock, SECOND_PUBKEY_INDEX_OFFSET) >>
        validationResult == validatePubkeyIndices(indices)
    IN  IF validationResult # SUCCESS_CODE
        THEN [isNumber |-> TRUE, code |-> validationResult]
        ELSE [isNumber |-> FALSE, pubkeyHashes |-> hashes,
              signatures |-> sigs, pubkeyIndices |-> indices]

\* mutant: the threshold and the public key count have to be 2
loadAndValidateInputs_CountsEnforced(args, lock) ==
    IF Len(args) < EXPECTED_SCRIPT_ARGS_LENGTH
    THEN [isNumber |-> TRUE, code |-> INVALID_SCRIPT_ARGS_LENGTH]
    ELSE IF ByteAt(args, PUBKEY_HASH_START_OFFSET - 2) # 2
            \/ ByteAt(args, PUBKEY_HASH_START_OFFSET - 1) # 2
    THEN [isNumber |-> TRUE, code |-> INVALID_SCRIPT_ARGS_LENGTH]
    ELSE
    LET hashes == << Slice(args, FIRST_PUBKEY_HASH_OFFSET,
                           FIRST_PUBKEY_HASH_OFFSET + PUBKEY_HASH_LENGTH),
                     Slice(args, SECOND_PUBKEY_HASH_OFFSET,
                           SECOND_PUBKEY_HASH_OFFSET + PUBKEY_HASH_LENGTH) >>
    IN  IF Len(lock) # EXPECTED_WITNESS_DATA_LENGTH
        THEN [isNumber |-> TRUE, code |-> INVALID_WITNESS_DATA_LENGTH]
        ELSE
        LET sigs == << Slice(lock, FIRST_SIGNATURE_OFFSET,
                             FIRST_SIGNATURE_OFFSET + SIGNATURE_LENGTH),
                       Slice(lock, SECOND_SIGNATURE_OFFSET,
                             SECOND_SIGNATURE_OFFSET + SIGNATURE_LENGTH) >>
            indices == << ByteAt(lock, FIRST_PUBKEY_INDEX_OFFSET),
                          ByteAt(lock, SECOND_PUBKEY_INDEX_OFFSET) >>
            validationResult == validatePubkeyIndices(indices)
        IN  IF validationResult # SUCCESS_CODE
            THEN [isNumber |-> TRUE, code |-> validationResult]
            ELSE [isNumber |-> FALSE, pubkeyHashes |-> hashes,
                  signatures |-> sigs, pubkeyIndices |-> indices]

\* mutant: script args longer than expected are rejected
loadAndValidateInputs_ExactLength(args, lock) ==
    IF Len(args) # EXPECTED_SCRIPT_ARGS_LENGTH
    THEN [isNumber |-> TRUE, code |-> INVALID_SCRIPT_ARGS_LENGTH]
    ELSE
    LET hashes == << Slice(args, FIRST_PUBKEY_HASH_OFFSET,
                           FIRST_PUBKEY_HASH_OFFSET + PUBKEY_HASH_LENGTH),
                     Slice(args, SECOND_PUBKEY_HASH_OFFSET,
                           SECOND_PUBKEY_HASH_OFFSET + PUBKEY_HASH_LENGTH) >>
    IN  IF Len(lock) # EXPECTED_WITNESS_DATA_LENGTH
        THEN [isNumber |-> TRUE, code |-> INVALID_WITNESS_DATA_LENGTH]
        ELSE
        LET sigs == << Slice(lock, FIRST_SIGNATURE_OFFSET,
                             FIRST_SIGNATURE_OFFSET + SIGNATURE_LENGTH),
                       Slice(lock, SECOND_SIGNATURE_OFFSET,
                             SECOND_SIGNATURE_OFFSET + SIGNATURE_LENGTH) >>
            indices == << ByteAt(lock, FIRST_PUBKEY_INDEX_OFFSET),
                          ByteAt(lock, SECOND_PUBKEY_INDEX_OFFSET) >>
            validationResult == validatePubkeyIndices(indices)
        IN  IF validationResult # SUCCESS_CODE
            THEN [isNumber |-> TRUE, code |-> validationResult]
            ELSE [isNumber |-> FALSE, pubkeyHashes |-> hashes,
                  signatures |-> sigs, pubkeyIndices |-> indices]

\* the result is a record: isNumber says whether it is the error code
loadAndValidateInputs(args, lock) ==
    IF Len(args) < EXPECTED_SCRIPT_ARGS_LENGTH
    THEN [isNumber |-> TRUE, code |-> INVALID_SCRIPT_ARGS_LENGTH]
    ELSE
    LET hashes == << Slice(args, FIRST_PUBKEY_HASH_OFFSET,
                           FIRST_PUBKEY_HASH_OFFSET + PUBKEY_HASH_LENGTH),
                     Slice(args, SECOND_PUBKEY_HASH_OFFSET,
                           SECOND_PUBKEY_HASH_OFFSET + PUBKEY_HASH_LENGTH) >>
    IN  IF Len(lock) # EXPECTED_WITNESS_DATA_LENGTH
        THEN [isNumber |-> TRUE, code |-> INVALID_WITNESS_DATA_LENGTH]
        ELSE
        LET sigs == << Slice(lock, FIRST_SIGNATURE_OFFSET,
                             FIRST_SIGNATURE_OFFSET + SIGNATURE_LENGTH),
                       Slice(lock, SECOND_SIGNATURE_OFFSET,
                             SECOND_SIGNATURE_OFFSET + SIGNATURE_LENGTH) >>
            indices == << ByteAt(lock, FIRST_PUBKEY_INDEX_OFFSET),
                          ByteAt(lock, SECOND_PUBKEY_INDEX_OFFSET) >>
            validationResult == validatePubkeyIndices(indices)
        IN  IF validationResult # SUCCESS_CODE
            THEN [isNumber |-> TRUE, code |-> validationResult]
            ELSE [isNumber |-> FALSE, pubkeyHashes |-> hashes,
                  signatures |-> sigs, pubkeyIndices |-> indices]

\* mutant: the pubkey index is ignored
getExpectedHash_AlwaysFirst(hashes, pubkeyIndex) == hashes[1]

\* mutant: the two entries are taken the other way round
getExpectedHash_Swapped(hashes, pubkeyIndex) ==
    IF pubkeyIndex = FIRST_PUBKEY_INDEX THEN hashes[2] ELSE hashes[1]

getExpectedHash(hashes, pubkeyIndex) ==
    IF pubkeyIndex = FIRST_PUBKEY_INDEX THEN hashes[1] ELSE hashes[2]

\* mutant: the recovery id is handed to the primitive unvalidated
CallsRecover_NoRange(signature) == Len(signature) = SIGNATURE_LENGTH

\* whether recoverPublicKey reaches the call of the primitive
CallsRecover(signature) ==
    /\ Len(signature) = SIGNATURE_LENGTH
    /\ ~ (ByteAt(signature, RECOVERY_ID_OFFSET) > 3)

\* mutant: the recovery id range is not validated
recoverPublicKey_NoRangeCheck(message_hash, signature) ==
    IF Len(signature) # SIGNATURE_LENGTH THEN Null
    ELSE
    LET signature_data == Slice(signature, 0, SIGNATURE_DATA_LENGTH)
        recovery_id == ByteAt(signature, RECOVERY_ID_OFFSET)
        recovered_pubkey ==
            secp256k1_recover(signature_data, recovery_id, message_hash)
    IN  IF recovered_pubkey = Throws THEN Null
        ELSE secp256k1_serializePubkey(recovered_pubkey)

\* mutant: the catch block returns a zeroed key buffer instead of null
recoverPublicKey_CatchReturnsBuffer(message_hash, signature) ==
    IF Len(signature) # SIGNATURE_LENGTH THEN Null
    ELSE
    LET signature_data == Slice(signature, 0, SIGNATURE_DATA_LENGTH)
        recovery_id == ByteAt(signature, RECOVERY_ID_OFFSET)
    IN  IF recovery_id > 3 THEN Null
        ELSE
        LET recovered_pubkey ==
                secp256k1_recover(signature_data, recovery_id, message_hash)
        IN  IF recovered_pubkey = Throws THEN [i \in 1..65 |-> 0]
            ELSE secp256k1_serializePubkey(recovered_pubkey)

recoverPublicKey(message_hash, signature) ==
    IF Len(signature) # SIGNATURE_LENGTH THEN Null
    ELSE
    LET signature_data == Slice(signature, 0, SIGNATURE_DATA_LENGTH)
        recovery_id == ByteAt(signature, RECOVERY_ID_OFFSET)
    IN  IF recovery_id > 3 THEN Null
        ELSE
        LET recovered_pubkey ==
                secp256k1_recover(signature_data, recovery_id, message_hash)
        IN  IF recovered_pubkey = Throws THEN Null
            ELSE secp256k1_serializePubkey(recovered_pubkey)

hashPublicKey(pubkey) == Slice(hashCkb(pubkey), 0, BLAKE160_HASH_LENGTH)

\* mutant: a failed recovery is reported as an invalid signature
verifySignature_RecoveryAsInvalid(messageHash, signature, hashes, pubkeyIndex) ==
    LET recoveredPubkey == recoverPublicKey(messageHash, signature)
    IN  IF recoveredPubkey = Null THEN INVALID_SIGNATURE
        ELSE
        LET recoveredHash == hashPublicKey(recoveredPubkey)
            expectedHash == getExpectedHash(hashes, pubkeyIndex)
        IN  IF ~ bytesEq(recoveredHash, expectedHash)
            THEN INVALID_SIGNATURE
            ELSE SUCCESS_CODE

\* mutant: the recovered hash is not compared with the expected one
verifySignature_NoCompare(messageHash, signature, hashes, pubkeyIndex) ==
    LET recoveredPubkey == recoverPublicKey(messageHash, signature)
    IN  IF recoveredPubkey = Null THEN SIGNATURE_RECOVERY_FAILED
        ELSE SUCCESS_CODE

\* mutant: a hash mismatch is reported with the code of an invalid index
verifySignature_MismatchAsIndex(messageHash, signature, hashes, pubkeyIndex) ==
    LET recoveredPubkey == recoverPublicKey(messageHash, signature)
    IN  IF recoveredPubkey = Null THEN SIGNATURE_RECOVERY_FAILED
        ELSE
        LET recoveredHash == hashPublicKey(recoveredPubkey)
            expectedHash == getExpectedHash(hashes, pubkeyIndex)
        IN  IF ~ bytesEq(recoveredHash, expectedHash)
            THEN INVALID_PUBKEY_INDEX
            ELSE SUCCESS_CODE

verifySignature(messageHash, signature, hashes, pubkeyIndex) ==
    LET recoveredPubkey == recoverPublicKey(messageHash, signature)
    IN  IF recoveredPubkey = Null THEN SIGNATURE_RECOVERY_FAILED
        ELSE
        LET recoveredHash == hashPublicKey(recoveredPubkey)
            expectedHash == getExpectedHash(hashes, pubkeyIndex)
        IN  IF ~ bytesEq(recoveredHash, expectedHash)
            THEN INVALID_SIGNATURE
            ELSE SUCCESS_CODE

\* main() as a function of what the environment supplies: the code returned
\* for script args `args`, witness lock `lock` and transaction hash `hash`
main(args, lock, hash) ==
    LET inputData == loadAndValidateInputs(args, lock)
    IN  IF inputData.isNumber THEN inputData.code
        ELSE
        LET firstSigResult ==
                verifySignature(hash, inputData.signatures[1],
                                inputData.pubkeyHashes,
                                inputData.pubkeyIndices[1])
        IN  IF firstSigResult # SUCCESS_CODE THEN firstSigResult
            ELSE
            LET secondSigResult ==
                    verifySignature(hash, inputData.signatures[2],
                                    inputData.pubkeyHashes,
                                    inputData.pubkeyIndices[2])
            IN  IF secondSigResult # SUCCESS_CODE THEN secondSigResult
                ELSE SUCCESS_CODE

(***************************************************************************)
(* The inputs a run can be given.                                          *)
(***************************************************************************)
\* the fingerprint registered for key holder k
Fingerprint(k) == hashPublicKey(secp256k1_serializePubkey(k))

\* prefix (2) + code hash (32) + hash type (1) + threshold (1) + count (1)
ArgsPrefix ==
    [i \in 1..PUBKEY_HASH_START_OFFSET |->
        IF i <= 2 THEN 0 ELSE IF i <= 34 THEN 170 ELSE IF i = 35 THEN 1 ELSE 2]

\* script args of the given length registering key holders a and b
ScriptArgs(a, b, len) ==
    LET full == ArgsPrefix \o Fingerprint(a) \o Fingerprint(b)
    IN  [i \in 1..len |-> IF i <= Len(full) THEN full[i] ELSE 255]

\* a 65-byte signature: payload of signer s over the hash tagged t, then
\* the recovery-id byte
Signature(s, t, recid) == SigData(s, TxHash(t)) \o << recid >>

\* the witness lock of two signatures and two pubkey indices, cut or padded
\* to the given length
WitnessLock(sig1, sig2, index1, index2, len) ==
    LET full == sig1 \o sig2 \o << index1, index2 >>
    IN  [i \in 1..len |-> IF i <= Len(full) THEN full[i] ELSE 0]

ArgsLengths ==
    (EXPECTED_SCRIPT_ARGS_LENGTH - MaxDelta)..(EXPECTED_SCRIPT_ARGS_LENGTH + MaxDelta)
LockLengths ==
    (EXPECTED_WITNESS_DATA_LENGTH - MaxDelta)..(EXPECTED_WITNESS_DATA_LENGTH + MaxDelta)
Indices == 0..MaxSel
RecIds == {0, 1, 3} \cup (4..MaxRecId)
\* the signatures tried in either slot: every key holder's valid signature
\* over the transaction being verified (tag 1), key holder 1's payload under
\* every recovery id, a malformed payload, and key holder 1's signature over
\* an earlier transaction (tag 2)
Signatures ==
    { Signature(s, 1, ValidRecId(s)) : s \in 1..NumKeys }
        \cup { Signature(1, 1, r) : r \in RecIds }
        \cup { Signature(0, 1, 0), Signature(1, 2, ValidRecId(1)) }

(***************************************************************************)
(* State.                                                                  *)
(***************************************************************************)
VARIABLES
    scriptArgs,          \* HighLevel.loadScript().args
    witnessData,         \* the lock field of the first group witness
    txHash,              \* bindings.loadTxHash()
    pc,                  \* where main() is
    pubkeyHashes,        \* main's locals, set once the inputs are loaded
    signatures,
    pubkeyIndices,
    signingMessageHash,
    recoveredKeys,       \* recoveredPubkey of each verifySignature call made
    recoverCalls,        \* the calls of secp256k1.recover made, in order
    hashCalls,           \* the calls of hashCkb made, in order
    txHashLoads,         \* the number of calls of bindings.loadTxHash made
    exitCode,            \* what main() returned
    runs,                \* the number of the run, counted from 1
    \* the state of the SnakeGame component of the frontend
    snake,               \* gameState.snake, head first
    food,                \* gameState.food
    direction,           \* gameState.direction
    gameOver,            \* gameState.gameOver
    score,               \* gameState.score
    gameRunning,         \* gameState.gameRunning
    directionQueue,      \* directionQueue.current
    applied,             \* the direction the last tick moved in, if any
    paymentChannel,      \* isOpen, balance and capacity of paymentChannel
    ownedSnakeThemes,
    ownedBoardThemes,
    currentSnakeTheme,
    currentBoardTheme,
    showThemeStore

\* the state of a run of the lock script
script == << scriptArgs, witnessData, txHash, pc, pubkeyHashes, signatures,
            pubkeyIndices, signingMessageHash, recoveredKeys, recoverCalls,
            hashCalls, txHashLoads, exitCode, runs >>

\* the state of the game held by the component
game == << snake, food, direction, gameOver, score, gameRunning,
          directionQueue, applied >>

\* the state of the payment channel and the theme store held by the component
store == << paymentChannel, ownedSnakeThemes, ownedBoardThemes,
           currentSnakeTheme, currentBoardTheme, showThemeStore >>

vars == << script, game, store >>

inputs == << scriptArgs, witnessData, txHash >>

(***************************************************************************)
(* The SnakeGame component (frontend/src/components/SnakeGame.tsx) as it   *)
(* is mounted.  The board is a GRID_SIZE x GRID_SIZE torus; the model      *)
(* scales the 20 x 20 board down and keeps the initial positions at the    *)
(* same relative places (the middle and three quarters of the board).      *)
(***************************************************************************)
INITIAL_SNAKE == << [x |-> GRID_SIZE \div 2, y |-> GRID_SIZE \div 2] >>
INITIAL_FOOD == [x |-> (3 * GRID_SIZE) \div 4, y |-> (3 * GRID_SIZE) \div 4]

\* the values of React.useState and React.useRef at the first render
Mounted ==
    /\ snake = INITIAL_SNAKE
    /\ food = INITIAL_FOOD
    /\ direction = "RIGHT"
    /\ gameOver = FALSE
    /\ score = 0
    /\ gameRunning = FALSE
    /\ directionQueue = << >>
    /\ applied = "NONE"
    /\ paymentChannel = [isOpen |-> FALSE, balance |-> 0, capacity |-> 100]
    /\ ownedSnakeThemes = {"classic"}
    /\ ownedBoardThemes = {"classic"}
    /\ currentSnakeTheme = "classic"
    /\ currentBoardTheme = "classic"
    /\ showThemeStore = FALSE

Init ==
    /\ \E a \in 1..NumKeys, b \in 1..NumKeys, len \in ArgsLengths :
          scriptArgs = ScriptArgs(a, b, len)
    \* a witness lock of a wrong length is tried with every pair of
    \* signatures and with the pubkey indices (0, 1)
    /\ \E sig1 \in Signatures, sig2 \in Signatures,
          index1 \in Indices, index2 \in Indices, len \in LockLengths :
          /\ len # EXPECTED_WITNESS_DATA_LENGTH
                => (index1 = FIRST_PUBKEY_INDEX /\ index2 = SECOND_PUBKEY_INDEX)
          /\ witnessData = WitnessLock(sig1, sig2, index1, index2, len)
    /\ txHash = TxHash(1)
    /\ pc = "load"
    /\ pubkeyHashes = << >>
    /\ signatures = << >>
    /\ pubkeyIndices = << >>
    /\ signingMessageHash = << >>
    /\ recoveredKeys = << >>
    /\ recoverCalls = << >>
    /\ hashCalls = << >>
    /\ txHashLoads = 0
    /\ exitCode = NoCode
    /\ runs = 1
    /\ Mounted

(***************************************************************************)
(* main(), one action per step.                                            *)
(***************************************************************************)
\* const inputData = loadAndValidateInputs(); return it if it is a number
Load ==
    /\ pc = "load"
    /\ LET inputData == loadAndValidateInputs(scriptArgs, witnessData)
       IN  IF inputData.isNumber
           THEN /\ exitCode' = inputData.code
                /\ pc' = "done"
                /\ UNCHANGED << pubkeyHashes, signatures, pubkeyIndices >>
           ELSE /\ pubkeyHashes' = inputData.pubkeyHashes
                /\ signatures' = inputData.signatures
                /\ pubkeyIndices' = inputData.pubkeyIndices
                /\ pc' = "hash"
                /\ UNCHANGED exitCode
    /\ UNCHANGED << inputs, signingMessageHash, recoveredKeys, recoverCalls,
                    hashCalls, txHashLoads, runs, game, store >>

\* const signingMessageHash = getSigningMessageHash()
GetSigningMessageHash ==
    /\ pc = "hash"
    /\ signingMessageHash' = txHash
    /\ txHashLoads' = txHashLoads + 1
    /\ pc' = "verify1"
    /\ UNCHANGED << inputs, pubkeyHashes, signatures, pubkeyIndices,
                    recoveredKeys, recoverCalls, hashCalls, exitCode, runs,
                    game, store >>

\* mutant: both signatures are verified before the first result is looked at
Verify_NoEarlyExit(i, next) ==
    LET signature == signatures[i]
        result == verifySignature(signingMessageHash, signature, pubkeyHashes,
                                  pubkeyIndices[i])
        recoveredPubkey == recoverPublicKey(signingMessageHash, signature)
    IN  /\ recoveredKeys' = Append(recoveredKeys, recoveredPubkey)
        /\ recoverCalls' =
              IF CallsRecover(signature)
              THEN Append(recoverCalls,
                          [slot |-> i,
                           signature_data |->
                               Slice(signature, 0, SIGNATURE_DATA_LENGTH),
                           recovery_id |-> ByteAt(signature, RECOVERY_ID_OFFSET),
                           message_hash |-> signingMessageHash])
              ELSE recoverCalls
        /\ hashCalls' =
              IF recoveredPubkey # Null THEN Append(hashCalls, i) ELSE hashCalls
        /\ exitCode' =
              IF exitCode # NoCode THEN exitCode
              ELSE IF result # SUCCESS_CODE THEN result
              ELSE IF next = "done" THEN SUCCESS_CODE
              ELSE NoCode
        /\ pc' = next
        /\ UNCHANGED << inputs, pubkeyHashes, signatures, pubkeyIndices,
                        signingMessageHash, txHashLoads, runs, game, store >>

\* mutant: a failure is stored and the run goes on, so that the result of
\* the second verification replaces that of the first
Verify_LastResultWins(i, next) ==
    LET signature == signatures[i]
        result == verifySignature(signingMessageHash, signature, pubkeyHashes,
                                  pubkeyIndices[i])
        recoveredPubkey == recoverPublicKey(signingMessageHash, signature)
    IN  /\ recoveredKeys' = Append(recoveredKeys, recoveredPubkey)
        /\ recoverCalls' =
              IF CallsRecover(signature)
              THEN Append(recoverCalls,
                          [slot |-> i,
                           signature_data |->
                               Slice(signature, 0, SIGNATURE_DATA_LENGTH),
                           recovery_id |-> ByteAt(signature, RECOVERY_ID_OFFSET),
                           message_hash |-> signingMessageHash])
              ELSE recoverCalls
        /\ hashCalls' =
              IF recoveredPubkey # Null THEN Append(hashCalls, i) ELSE hashCalls
        /\ exitCode' =
              IF result # SUCCESS_CODE THEN result
              ELSE IF exitCode # NoCode THEN exitCode
              ELSE IF next = "done" THEN SUCCESS_CODE
              ELSE NoCode
        /\ pc' = next
        /\ UNCHANGED << inputs, pubkeyHashes, signatures, pubkeyIndices,
                        signingMessageHash, txHashLoads, runs, game, store >>

\* mutant: a signature whose verification fails is verified once more
Verify_RetryOnce(i, next) ==
    LET signature == signatures[i]
        result == verifySignature(signingMessageHash, signature, pubkeyHashes,
                                  pubkeyIndices[i])
        recoveredPubkey == recoverPublicKey(signingMessageHash, signature)
    IN  /\ recoveredKeys' = Append(recoveredKeys, recoveredPubkey)
        /\ recoverCalls' =
              IF CallsRecover(signature)
              THEN Append(recoverCalls,
                          [slot |-> i,
                           signature_data |->
                               Slice(signature, 0, SIGNATURE_DATA_LENGTH),
                           recovery_id |-> ByteAt(signature, RECOVERY_ID_OFFSET),
                           message_hash |-> signingMessageHash])
              ELSE recoverCalls
        /\ hashCalls' =
              IF recoveredPubkey # Null THEN Append(hashCalls, i) ELSE hashCalls
        /\ IF result # SUCCESS_CODE /\ Len(recoveredKeys) = i - 1
           THEN UNCHANGED << exitCode, pc >>
           ELSE IF result # SUCCESS_CODE
           THEN exitCode' = result /\ pc' = "done"
           ELSE IF next = "done"
           THEN exitCode' = SUCCESS_CODE /\ pc' = "done"
           ELSE UNCHANGED exitCode /\ pc' = next
        /\ UNCHANGED << inputs, pubkeyHashes, signatures, pubkeyIndices,
                        signingMessageHash, txHashLoads, runs, game, store >>

\* mutant: the transaction hash is loaded again for every signature
Verify_ReloadsHash(i, next) ==
    LET signature == signatures[i]
        result == verifySignature(txHash, signature, pubkeyHashes,
                                  pubkeyIndices[i])
        recoveredPubkey == recoverPublicKey(txHash, signature)
    IN  /\ recoveredKeys' = Append(recoveredKeys, recoveredPubkey)
        /\ recoverCalls' =
              IF CallsRecover(signature)
              THEN Append(recoverCalls,
                          [slot |-> i,
                           signature_data |->
                               Slice(signature, 0, SIGNATURE_DATA_LENGTH),
                           recovery_id |-> ByteAt(signature, RECOVERY_ID_OFFSET),
                           message_hash |-> txHash])
              ELSE recoverCalls
        /\ hashCalls' =
              IF recoveredPubkey # Null THEN Append(hashCalls, i) ELSE hashCalls
        /\ txHashLoads' = txHashLoads + 1
        /\ IF result # SUCCESS_CODE
           THEN exitCode' = result /\ pc' = "done"
           ELSE IF next = "done"
           THEN exitCode' = SUCCESS_CODE /\ pc' = "done"
           ELSE UNCHANGED exitCode /\ pc' = next
        /\ UNCHANGED << inputs, pubkeyHashes, signatures, pubkeyIndices,
                        signingMessageHash, runs, game, store >>

\* verifySignature on signature i (1 or 2); a failure is returned, success
\* moves on to next
Verify(i, next) ==
    LET signature == signatures[i]
        result == verifySignature(signingMessageHash, signature, pubkeyHashes,
                                  pubkeyIndices[i])
        recoveredPubkey == recoverPublicKey(signingMessageHash, signature)
    IN  /\ recoveredKeys' = Append(recoveredKeys, recoveredPubkey)
        /\ recoverCalls' =
              IF CallsRecover(signature)
              THEN Append(recoverCalls,
                          [slot |-> i,
                           signature_data |->
                               Slice(signature, 0, SIGNATURE_DATA_LENGTH),
                           recovery_id |-> ByteAt(signature, RECOVERY_ID_OFFSET),
                           message_hash |-> signingMessageHash])
              ELSE recoverCalls
        /\ hashCalls' =
              IF recoveredPubkey # Null THEN Append(hashCalls, i) ELSE hashCalls
        /\ IF result # SUCCESS_CODE
           THEN exitCode' = result /\ pc' = "done"
           ELSE IF next = "done"
           THEN exitCode' = SUCCESS_CODE /\ pc' = "done"
           ELSE UNCHANGED exitCode /\ pc' = next
        /\ UNCHANGED << inputs, pubkeyHashes, signatures, pubkeyIndices,
                        signingMessageHash, txHashLoads, runs, game, store >>

VerifyFirst == pc = "verify1" /\ Verify(1, "verify2")

VerifySecond == pc = "verify2" /\ Verify(2, "done")

Next == Load \/ GetSigningMessageHash \/ VerifyFirst \/ VerifySecond

Spec == Init /\ [][Next]_vars

\* main() runs to completion: single-threaded, synchronous, no suspension
\* points, so a step that can be taken is taken
FairSpec == Spec /\ WF_vars(Next)

(***************************************************************************)
(* Runs one after the other.  A run ends with bindings.exit(main()); the   *)
(* script has no module-level state but constants, so the next run starts  *)
(* from nothing but what the environment supplies to it.                   *)
(***************************************************************************)
\* what a later run is given: script args registering key holders 1 and 2,
\* long enough or one byte short, and a witness lock that is accepted with
\* them, or has the signatures in the wrong slots, equal indices, a
\* malformed payload or a missing byte
RerunArgs ==
    { ScriptArgs(1, 2, len) :
        len \in (EXPECTED_SCRIPT_ARGS_LENGTH - 1)..EXPECTED_SCRIPT_ARGS_LENGTH }
RerunLocks ==
    LET sigOf(s) == Signature(s, 1, ValidRecId(s))
    IN  { WitnessLock(sigOf(1), sigOf(2), 0, 1, EXPECTED_WITNESS_DATA_LENGTH),
          WitnessLock(sigOf(2), sigOf(1), 0, 1, EXPECTED_WITNESS_DATA_LENGTH),
          WitnessLock(sigOf(1), sigOf(2), 1, 1, EXPECTED_WITNESS_DATA_LENGTH),
          WitnessLock(Signature(0, 1, 0), sigOf(2), 0, 1,
                      EXPECTED_WITNESS_DATA_LENGTH),
          WitnessLock(sigOf(1), sigOf(2), 0, 1,
                      EXPECTED_WITNESS_DATA_LENGTH - 1) }

\* mutant: the parsed inputs of the earlier run are kept in a module-level
\* cache and the next run goes on from them
Restart_CachedInputs ==
    /\ pc = "done"
    /\ runs < MaxRuns
    /\ scriptArgs' \in RerunArgs
    /\ witnessData' \in RerunLocks
    /\ txHash' = TxHash(1)
    /\ pc' = IF pubkeyHashes # << >> THEN "hash" ELSE "load"
    /\ UNCHANGED << pubkeyHashes, signatures, pubkeyIndices >>
    /\ signingMessageHash' = << >>
    /\ recoveredKeys' = << >>
    /\ recoverCalls' = << >>
    /\ hashCalls' = << >>
    /\ txHashLoads' = 0
    /\ exitCode' = NoCode
    /\ runs' = runs + 1
    /\ UNCHANGED << game, store >>

\* the process has exited and the script is run again, on any inputs
Restart ==
    /\ pc = "done"
    /\ runs < MaxRuns
    /\ scriptArgs' \in RerunArgs
    /\ witnessData' \in RerunLocks
    /\ txHash' = TxHash(1)
    /\ pc' = "load"
    /\ pubkeyHashes' = << >>
    /\ signatures' = << >>
    /\ pubkeyIndices' = << >>
    /\ signingMessageHash' = << >>
    /\ recoveredKeys' = << >>
    /\ recoverCalls' = << >>
    /\ hashCalls' = << >>
    /\ txHashLoads' = 0
    /\ exitCode' = NoCode
    /\ runs' = runs + 1
    /\ UNCHANGED << game, store >>

RunsNext == Next \/ Restart

RunsSpec == Init /\ [][RunsNext]_vars

(***************************************************************************)
(* The contract of a run, stated on the raw input buffers with the offsets *)
(* of the buffer layouts: the configuration is 37 prefix bytes and two     *)
(* 20-byte fingerprints, the proof is two 65-byte signatures (64 payload   *)
(* bytes and the recovery id) and two selector bytes.                      *)
(***************************************************************************)
Returned == pc = "done"

ConfigLongEnough == Len(scriptArgs) >= 77
ProofExact == Len(witnessData) = 132

\* selector i (0 or 1) of a proof of at least 132 bytes
Selector(i) == witnessData[131 + i]
\* recovery id and payload of signature i (0 or 1)
RecoveryId(i) == witnessData[65 * i + 65]
Payload(i) == [j \in 1..64 |-> witnessData[65 * i + j]]
\* the registered fingerprint that selector value sel (0 or 1) chooses
Registered(sel) == [j \in 1..20 |-> scriptArgs[37 + 20 * sel + j]]

SelectorsValid ==
    /\ Selector(0) \in {0, 1}
    /\ Selector(1) \in {0, 1}
    /\ Selector(0) # Selector(1)

StructureValid == ConfigLongEnough /\ ProofExact /\ SelectorsValid

\* what the recovery primitive makes of signature i and the message hash
PrimitiveResult(i) == secp256k1_recover(Payload(i), RecoveryId(i), txHash)
\* the fingerprint of a serialized key: the first 20 bytes of its hash
FingerprintOfKey(key) == [j \in 1..20 |-> hashCkb(key)[j]]
FingerprintOfSig(i) ==
    FingerprintOfKey(secp256k1_serializePubkey(PrimitiveResult(i)))

\* signature i passes on its own: recovery id in range, recovery succeeds,
\* fingerprint equal to the registered one its selector chooses
SigPasses(i) ==
    /\ RecoveryId(i) \in 0..3
    /\ PrimitiveResult(i) # Throws
    /\ FingerprintOfSig(i) = Registered(Selector(i))

\* the code of the check of signature i alone
SigCode(i) ==
    IF RecoveryId(i) > 3 THEN 5
    ELSE IF PrimitiveResult(i) = Throws THEN 5
    ELSE IF FingerprintOfSig(i) # Registered(Selector(i)) THEN 1
    ELSE 0

AllChecksHold == StructureValid /\ SigPasses(0) /\ SigPasses(1)

\* the code of the first failing check in the order config length, proof
\* length, selectors, signature 0, signature 1
FirstFailingCode ==
    IF ~ ConfigLongEnough THEN 2
    ELSE IF ~ ProofExact THEN 3
    ELSE IF ~ SelectorsValid THEN 4
    ELSE IF SigCode(0) # 0 THEN SigCode(0)
    ELSE SigCode(1)

(***************************************************************************)
(* Claims.                                                                 *)
(***************************************************************************)

\* C1: main() returns 0 exactly when the config has at least 77 bytes, the
\* proof has exactly 132 bytes, the selectors are in {0,1} and different,
\* both recovery ids are in 0..3, recovery succeeds for both signatures and
\* each recovered key's fingerprint equals the registered fingerprint its
\* selector chooses; in every other case it returns a non-zero code.
C1_SuccessExactlyWhenAllHold ==
    Returned =>
        /\ (exitCode = 0) <=> AllChecksHold
        /\ ~ AllChecksHold => exitCode \in 1..5

C1_Witness == Returned /\ AllChecksHold /\ exitCode = 0

\* C2: the checks run in the order config length, proof length, selectors,
\* signature 0, signature 1, and the outcome of a run is the code of the
\* first check in that order that fails (0 when none fails), whatever a
\* later check would have produced.
C2_FirstFailureWins == Returned => exitCode = FirstFailingCode

\* a run whose signature 0 has the wrong key and whose signature 1 has a
\* bad recovery id: the earlier failure is the outcome
C2_Witness ==
    /\ Returned
    /\ StructureValid
    /\ SigCode(0) = 1
    /\ SigCode(1) = 5
    /\ exitCode = 1

\* C3: if verification returns Success then the keys recovered from
\* signature 0 and signature 1 are two different keys, each bound to a
\* distinct registered key.
C3_SuccessMeansTwoKeys ==
    (Returned /\ exitCode = 0) =>
        /\ recoveredKeys[1] # recoveredKeys[2]
        /\ Registered(Selector(0)) # Registered(Selector(1))

C5_ShortConfigRegardlessOfProof ==
    (Returned /\ Len(scriptArgs) < 77) =>
        /\ exitCode = 2
        /\ signatures = << >>
        /\ pubkeyIndices = << >>
        /\ recoveredKeys = << >>

\* a short config with a proof that is otherwise perfectly valid
C5_Witness ==
    /\ Returned
    /\ Len(scriptArgs) < 77
    /\ ProofExact
    /\ SelectorsValid
    /\ PrimitiveResult(0) \in 1..NumKeys
    /\ PrimitiveResult(1) \in 1..NumKeys
    /\ PrimitiveResult(0) # PrimitiveResult(1)
    /\ exitCode = 2

\* C6 as stated: any proof buffer whose length is not exactly 132 bytes
\* yields code 3.
C6_Original == (Returned /\ Len(witnessData) # 132) => exitCode = 3

\* C6 amended: when the config buffer has at least 77 bytes, any proof
\* buffer whose length is not exactly 132 bytes (shorter or longer) yields
\* code 3, regardless of the proof's content.
C6_WrongProofLength ==
    (Returned /\ ConfigLongEnough /\ Len(witnessData) # 132) => exitCode = 3

\* a proof one byte too long under a good config
C6_Witness ==
    Returned /\ ConfigLongEnough /\ Len(witnessData) > 132 /\ exitCode = 3

\* C7 as stated: a 132-byte proof whose selectors are equal, both 0 or both
\* 1, yields code 4.
C7_Original ==
    (Returned /\ ProofExact /\ Selector(0) = Selector(1)
        /\ Selector(0) \in {0, 1}) => exitCode = 4

\* C7 amended: when the config buffer has at least 77 bytes and the proof
\* has exactly 132 bytes, verification fails with code 4 whenever
\* selector[0] equals selector[1], for both equal pairs of {0,1} x {0,1},
\* even when both signatures are valid signatures of registered keys.
C7_EqualSelectors ==
    (Returned /\ ConfigLongEnough /\ ProofExact /\ Selector(0) = Selector(1)
        /\ Selector(0) \in {0, 1}) => exitCode = 4

\* selectors (1,1) with two valid signatures of the registered key 1
C7_Witness ==
    /\ Returned
    /\ ConfigLongEnough
    /\ ProofExact
    /\ Selector(0) = 1
    /\ Selector(1) = 1
    /\ SigPasses(0)
    /\ SigPasses(1)
    /\ exitCode = 4

\* C8 as stated: a 132-byte proof with a selector byte of 2 or more, in
\* either position, yields code 4.
C8_Original ==
    (Returned /\ ProofExact /\ (Selector(0) >= 2 \/ Selector(1) >= 2))
        => exitCode = 4

\* C8 amended: when the config buffer has at least 77 bytes and the proof
\* has exactly 132 bytes, any selector byte with value 2 or more, in either
\* selector position, yields code 4.
C8_SelectorOutOfRange ==
    (Returned /\ ConfigLongEnough /\ ProofExact
        /\ (Selector(0) >= 2 \/ Selector(1) >= 2)) => exitCode = 4

\* only the second selector is out of range
C8_Witness ==
    /\ Returned
    /\ ConfigLongEnough
    /\ ProofExact
    /\ Selector(0) = 0
    /\ Selector(1) >= 2
    /\ exitCode = 4

\* C9 as stated: a 132-byte proof with a recovery id greater than 3 in
\* either signature yields code 5.
C9_Original ==
    (Returned /\ ProofExact /\ (RecoveryId(0) > 3 \/ RecoveryId(1) > 3))
        => exitCode = 5

\* C9 amended: a recovery id greater than 3 yields code 5 in a signature
\* whose check is reached: in signature 0 when the config-length,
\* proof-length and selector checks pass, and in signature 1 when signature
\* 0's check passes as well.
C9_BadRecoveryId ==
    (Returned /\ StructureValid
        /\ (RecoveryId(0) > 3 \/ (SigCode(0) = 0 /\ RecoveryId(1) > 3)))
        => exitCode = 5

\* signature 0 passes and signature 1 has recovery id 4 or more
C9_Witness ==
    /\ Returned
    /\ StructureValid
    /\ SigCode(0) = 0
    /\ RecoveryId(1) > 3
    /\ exitCode = 5

\* C10: when a signature's check is reached (all structural and selector
\* checks passed, and for signature 1 signature 0 passed) and its key is
\* recovered but the key's fingerprint differs from the registered
\* fingerprint its selector chooses, the outcome is code 1.
C10_MismatchIsInvalidSignature ==
    Returned =>
        \A i \in 1..Len(recoveredKeys) :
            (/\ recoveredKeys[i] # Null
             /\ FingerprintOfKey(recoveredKeys[i]) # Registered(Selector(i - 1)))
                => exitCode = 1

\* the wrong key in slot 1 after slot 0 passed
C10_Witness ==
    /\ Returned
    /\ Len(recoveredKeys) = 2
    /\ recoveredKeys[2] # Null
    /\ FingerprintOfKey(recoveredKeys[2]) # Registered(Selector(1))
    /\ exitCode = 1

\* the calls of the recovery primitive made for signature slot i (1 or 2)
RecoverCallsOf(i) == { k \in 1..Len(recoverCalls) : recoverCalls[k].slot = i }
\* the calls of the fingerprint hash made for signature slot i (1 or 2)
HashCallsOf(i) == { k \in 1..Len(hashCalls) : hashCalls[k] = i }

\* C11: signature 0 is evaluated before signature 1, and once signature 0's
\* check fails neither recovery nor fingerprint hashing of signature 1 is
\* ever performed; the outcome is then the code of signature 0's check
\* alone, whatever signature 1 holds.
C11_NoSecondCheckAfterFirstFails ==
    /\ (RecoverCallsOf(2) # {} \/ HashCallsOf(2) # {} \/ Len(recoveredKeys) = 2)
          => (StructureValid /\ SigCode(0) = 0 /\ pc = "done")
    /\ (Returned /\ StructureValid /\ SigCode(0) # 0)
          => /\ exitCode = SigCode(0)
             /\ Len(recoveredKeys) = 1
             /\ RecoverCallsOf(2) = {}
             /\ HashCallsOf(2) = {}

\* signature 0's recovery is rejected while signature 1 is a valid
\* signature of the key its selector chooses
C11_Witness ==
    /\ Returned
    /\ StructureValid
    /\ RecoveryId(0) \in 0..3
    /\ PrimitiveResult(0) = Throws
    /\ SigCode(1) = 0
    /\ exitCode = 5
    /\ Len(recoveredKeys) = 1

\* what the primitive made of the k-th call recorded in recoverCalls
CallResult(k) ==
    secp256k1_recover(Slice(signatures[recoverCalls[k].slot], 0, 64),
                      recoverCalls[k].recovery_id,
                      recoverCalls[k].message_hash)

\* C12: whenever the recovery primitive throws on the inputs of a signature
\* whose check is reached, the run returns code 5: the rejection is caught
\* (the recovered key is null) and no fingerprint is hashed or compared for
\* that signature.
C12_RejectionIsRecoveryFailed ==
    \A k \in 1..Len(recoverCalls) :
        CallResult(k) = Throws
            => /\ pc = "done"
               /\ exitCode = 5
               /\ k = Len(recoverCalls)
               /\ recoveredKeys[Len(recoveredKeys)] = Null
               /\ HashCallsOf(recoverCalls[k].slot) = {}

\* signature 0 passed and the primitive threw on signature 1
C12_Witness ==
    /\ Returned
    /\ Len(recoverCalls) = 2
    /\ CallResult(1) # Throws
    /\ CallResult(2) = Throws
    /\ HashCallsOf(1) # {}
    /\ exitCode = 5

\* C13: every verification run terminates with exactly one outcome, and
\* that outcome is one of the codes 0..5: the run reaches its return, it has
\* an exit code exactly from then on, the code is in 0..5 and it never
\* changes once set.
C13_TerminatesWithOneOutcome ==
    /\ <>(pc = "done")
    /\ [](pc = "done" <=> exitCode # NoCode)
    /\ [](exitCode # NoCode => exitCode \in 0..5)
    /\ [][exitCode # NoCode => exitCode' = exitCode]_vars

\* a run that ended on the proof length check
C13_Witness ==
    /\ pc = "done"
    /\ ConfigLongEnough
    /\ Len(witnessData) < 132
    /\ exitCode = 3

\* the kind of failure of the check of signature i alone
SigFailure(i) ==
    IF RecoveryId(i) > 3 THEN "recid"
    ELSE IF PrimitiveResult(i) = Throws THEN "rejected"
    ELSE IF FingerprintOfSig(i) # Registered(Selector(i)) THEN "mismatch"
    ELSE "none"

\* the kind of the first failing check of the run
FirstFailure ==
    IF ~ ConfigLongEnough THEN "config"
    ELSE IF ~ ProofExact THEN "proof"
    ELSE IF ~ SelectorsValid THEN "selector"
    ELSE IF SigFailure(0) # "none" THEN SigFailure(0)
    ELSE SigFailure(1)

\* the classes of the error taxonomy: wrong buffer sizes; selector or
\* recovery-id values outside their domains; recovery rejected or
\* fingerprint mismatch
Structural == FirstFailure \in {"config", "proof"}
InputDomain == FirstFailure \in {"selector", "recid"}
Cryptographic == FirstFailure \in {"rejected", "mismatch"}

\* C15 as stated: all failures of one error class are reported with the
\* same code.  A config that is too short (structural) is reported with 2,
\* an invalid selector (input-domain) with 4 and a fingerprint mismatch
\* (cryptographic) with 1, so one code per class means these three.
C15_Original ==
    Returned =>
        /\ Structural => exitCode = 2
        /\ InputDomain => exitCode = 4
        /\ Cryptographic => exitCode = 1

\* C15 amended: each failure kind maps to exactly one code and each error
\* class to two: structural to 2 (config too short) or 3 (proof length),
\* input-domain to 4 (selector) or 5 (recovery id), cryptographic to 5
\* (recovery rejected) or 1 (fingerprint mismatch).
C15_KindCodes ==
    Returned =>
        /\ Structural =>
              exitCode = (IF FirstFailure = "config" THEN 2 ELSE 3)
        /\ InputDomain =>
              exitCode = (IF FirstFailure = "selector" THEN 4 ELSE 5)
        /\ Cryptographic =>
              exitCode = (IF FirstFailure = "rejected" THEN 5 ELSE 1)
        /\ FirstFailure = "none" => exitCode = 0

\* an input-domain failure that is reported with 5, not 4
C15_Witness ==
    /\ Returned
    /\ FirstFailure = "recid"
    /\ InputDomain
    /\ exitCode = 5

C17_NoCryptoBeforeStructure ==
    /\ (Returned /\ exitCode \in {2, 3, 4})
          => (recoverCalls = << >> /\ hashCalls = << >> /\ recoveredKeys = << >>)
    /\ (recoverCalls # << >> \/ hashCalls # << >>) => StructureValid

\* two recoverable signatures of key holders behind invalid selectors
C17_Witness ==
    /\ Returned
    /\ ConfigLongEnough
    /\ ProofExact
    /\ RecoveryId(0) \in 0..3
    /\ RecoveryId(1) \in 0..3
    /\ PrimitiveResult(0) \in 1..NumKeys
    /\ PrimitiveResult(1) \in 1..NumKeys
    /\ exitCode = 4
    /\ recoverCalls = << >>
    /\ hashCalls = << >>

\* C18: there is no retry: the recovery primitive is invoked at most once
\* per signature slot (at most twice in total), the fingerprint hash at most
\* once per slot, and a signature whose verification failed is not verified
\* again: verifySignature runs once when signature 0 fails and twice
\* otherwise.
C18_NoRetry ==
    /\ Len(recoverCalls) <= 2
    /\ Len(hashCalls) <= 2
    /\ \A i \in {1, 2} :
          Cardinality(RecoverCallsOf(i)) <= 1 /\ Cardinality(HashCallsOf(i)) <= 1
    /\ Len(recoveredKeys) <= 2
    /\ (Returned /\ StructureValid)
          => Len(recoveredKeys) = (IF SigCode(0) # 0 THEN 1 ELSE 2)

\* both signatures were recovered and hashed once and the second one failed
C18_Witness ==
    /\ Returned
    /\ Cardinality(RecoverCallsOf(1)) = 1
    /\ Cardinality(RecoverCallsOf(2)) = 1
    /\ Len(hashCalls) = 2
    /\ exitCode = 1

\* C19: the recoverer never invokes the recovery primitive with a recovery
\* id outside 0..3: when the byte at offset 64 of a verified signature is
\* greater than 3 the recoverer returns null without calling the primitive,
\* and otherwise it calls the primitive with that byte.
C19_PrimitiveOnlyInDomain ==
    /\ \A k \in 1..Len(recoverCalls) : recoverCalls[k].recovery_id \in 0..3
    /\ \A i \in 1..Len(recoveredKeys) :
          IF RecoveryId(i - 1) > 3
          THEN RecoverCallsOf(i) = {} /\ recoveredKeys[i] = Null
          ELSE \E k \in RecoverCallsOf(i) :
                  recoverCalls[k].recovery_id = RecoveryId(i - 1)

\* signature 0 carries a recovery id above 3 and the primitive was not called
C19_Witness ==
    /\ Returned
    /\ StructureValid
    /\ RecoveryId(0) > 3
    /\ recoverCalls = << >>
    /\ recoveredKeys = << Null >>
    /\ exitCode = 5

\* the two entries of the registered fingerprint pair: the 20 config bytes
\* at offsets 37..56 and at offsets 57..76
Entry0 == [j \in 1..20 |-> scriptArgs[37 + j]]
Entry1 == [j \in 1..20 |-> scriptArgs[57 + j]]
\* the entry that the selector of signature i (0 or 1) chooses
ExpectedFor(i) == IF Selector(i) = 0 THEN Entry0 ELSE Entry1
\* the check of slot n (1 or 2) passed in a run that has returned
SlotPassed(n) == n < Len(recoveredKeys) \/ exitCode = 0

\* C20: for each signature i the expected fingerprint is the entry of the
\* registered pair that selector[i] chooses, entry 0 being the config bytes
\* at offsets 37..56 and entry 1 those at 57..76: a signature whose key was
\* recovered passes exactly when the key's fingerprint equals that entry, so
\* with selectors (1,0) signature 0 is compared against the second
\* registered fingerprint and signature 1 against the first.
C20_ExpectedBySelector ==
    Returned =>
        \A n \in 1..Len(recoveredKeys) :
            recoveredKeys[n] # Null =>
                (SlotPassed(n) <=>
                    FingerprintOfKey(recoveredKeys[n]) = ExpectedFor(n - 1))

\* selectors (1,0) over two different registered fingerprints, accepted
C20_Witness ==
    /\ Returned
    /\ exitCode = 0
    /\ Selector(0) = 1
    /\ Selector(1) = 0
    /\ Entry0 # Entry1
    /\ FingerprintOfKey(recoveredKeys[1]) = Entry1
    /\ FingerprintOfKey(recoveredKeys[2]) = Entry0

\* C21: a 132-byte proof is decomposed at fixed offsets: signature 0 is
\* bytes 0..64, signature 1 is bytes 65..129, selector 0 is byte 130 and
\* selector 1 is byte 131; of each signature the first 64 bytes are the
\* payload passed to the recovery primitive and the 65th byte is the
\* recovery id passed with it.
C21_ProofLayout ==
    /\ signatures # << >> =>
          /\ Len(witnessData) = 132
          /\ signatures[1] = [j \in 1..65 |-> witnessData[j]]
          /\ signatures[2] = [j \in 1..65 |-> witnessData[65 + j]]
          /\ pubkeyIndices = << witnessData[131], witnessData[132] >>
    /\ \A k \in 1..Len(recoverCalls) :
          LET first == 65 * (recoverCalls[k].slot - 1)
          IN  /\ recoverCalls[k].signature_data =
                    [j \in 1..64 |-> witnessData[first + j]]
              /\ recoverCalls[k].recovery_id = witnessData[first + 65]

\* two different signatures under selectors (1,0), both handed to recovery
C21_Witness ==
    /\ Returned
    /\ Len(recoverCalls) = 2
    /\ signatures[1] # signatures[2]
    /\ recoverCalls[1].signature_data # recoverCalls[2].signature_data
    /\ recoverCalls[1].recovery_id # recoverCalls[2].recovery_id
    /\ pubkeyIndices = << 1, 0 >>

\* C22: within one run the message hash is obtained from the environment
\* once (and not at all in a run that ends on a structural check), it has
\* 32 bytes, and that same value is passed to the recovery of signature 0
\* and to the recovery of signature 1.
C22_HashLoadedOnce ==
    /\ txHashLoads <= 1
    /\ (txHashLoads = 1) <=> (StructureValid /\ pc \notin {"load", "hash"})
    /\ \A k \in 1..Len(recoverCalls) :
          /\ Len(recoverCalls[k].message_hash) = 32
          /\ recoverCalls[k].message_hash = txHash
          /\ recoverCalls[k].message_hash = recoverCalls[1].message_hash

\* both signatures were recovered in a run that loaded the hash once
C22_Witness ==
    /\ Returned
    /\ Len(recoverCalls) = 2
    /\ recoverCalls[1].slot = 1
    /\ recoverCalls[2].slot = 2
    /\ txHashLoads = 1

\* C23: a run leaves the config buffer, the proof buffer and the message
\* hash as the environment supplied them, and nothing is kept from one run
\* to the next: every run starts with no parsed input, no message hash, no
\* recovered key and no outcome, and its outcome is the code of the first
\* failing check of its own inputs, whatever run came before it.
C23_NoStateAcrossRuns ==
    /\ [][pc # "done" => UNCHANGED inputs]_vars
    /\ [](pc = "load" =>
            /\ pubkeyHashes = << >>
            /\ signatures = << >>
            /\ pubkeyIndices = << >>
            /\ signingMessageHash = << >>
            /\ recoveredKeys = << >>
            /\ exitCode = NoCode)
    /\ [](Returned => exitCode = FirstFailingCode)

\* a later run that accepted its inputs
C23_Witness == runs > 1 /\ Returned /\ AllChecksHold /\ exitCode = 0

\* buf with the byte at the given offset replaced by v
WithByte(buf, offset, v) == [buf EXCEPT ![offset + 1] = v]

\* config buffers of the same length and with the same bytes from offset 37
\* on as `args` (of at least 37 bytes): each of the first 37 bytes changed in
\* turn, the threshold byte (offset 35) and the key-count byte (offset 36)
\* set to each of 0..3, and all 37 bytes changed at once
PrefixVariants(args) ==
    { WithByte(args, o, (args[o + 1] + 1) % 256) : o \in 0..36 }
        \cup { WithByte(args, o, v) : o \in {35, 36}, v \in 0..3 }
        \cup { [i \in 1..Len(args) |->
                  IF i <= 37 THEN (args[i] + 1) % 256 ELSE args[i]] }

\* C24: the first 37 bytes of the config buffer (routing prefix, executor
\* code identity, hash-type tag, threshold byte, key-count byte) are opaque
\* to the script: a run on a config buffer of the same length and with the
\* same 40 fingerprint bytes that differs in any of them returns the same
\* code; in particular a threshold or key-count byte other than 2 is not
\* rejected.
C24_PrefixOpaque ==
    Returned =>
        \A other \in PrefixVariants(scriptArgs) :
            main(other, witnessData, txHash) = exitCode

\* an accepted run whose config, with threshold 3 and key count 1, is
\* accepted as well
C24_Witness ==
    /\ Returned
    /\ exitCode = 0
    /\ ByteAt(scriptArgs, 35) = 2
    /\ ByteAt(scriptArgs, 36) = 2
    /\ main(WithByte(WithByte(scriptArgs, 35, 3), 36, 1), witnessData, txHash) = 0

\* a 132-byte proof with the two signature slots and the two selectors
\* exchanged
SwapSlots(lock) ==
    Slice(lock, 65, 130) \o Slice(lock, 0, 65) \o << lock[132], lock[131] >>

\* C25: acceptance does not depend on the order of the two slots: with
\* signature 0 and signature 1 exchanged, and selector 0 and selector 1
\* exchanged, in a 132-byte proof, a run that returns 0 becomes a run that
\* returns 0 and a run that returns a non-zero code becomes a run that
\* returns a non-zero code (not necessarily the same one).
C25_SlotOrderIrrelevant ==
    (Returned /\ ProofExact) =>
        ((exitCode = 0) <=> (main(scriptArgs, SwapSlots(witnessData), txHash) = 0))

\* a rejected run that is rejected with another code once the slots are
\* exchanged
C25_Witness ==
    /\ Returned
    /\ ProofExact
    /\ exitCode = 1
    /\ main(scriptArgs, SwapSlots(witnessData), txHash) = 5

\* config buffers with the first 77 bytes of `args` followed by 0, 1, ...,
\* MaxDelta + 1 bytes, all 0 or all 7
TailVariants(args) ==
    { Slice(args, 0, 77) \o [i \in 1..n |-> b] :
        n \in 0..(MaxDelta + 1), b \in {0, 7} }

\* C26: a config buffer longer than 77 bytes is accepted, and what follows
\* offset 76 never influences the outcome: a run on a config buffer of at
\* least 77 bytes with the same bytes at offsets 37..76 (here: the same
\* first 77 bytes) and anything or nothing after them returns the same code
\* for the same proof and message hash.
C26_TailIgnored ==
    (Returned /\ Len(scriptArgs) >= 77) =>
        /\ exitCode # 2
        /\ \A other \in TailVariants(scriptArgs) :
              main(other, witnessData, txHash) = exitCode

\* an accepted run on a config of 78 bytes that is accepted with two other
\* bytes, and with none, after the fingerprints
C26_Witness ==
    /\ Returned
    /\ Len(scriptArgs) > 77
    /\ exitCode = 0
    /\ scriptArgs[78] \notin {0, 7}
    /\ main(Slice(scriptArgs, 0, 77) \o << 7, 7 >>, witnessData, txHash) = 0
    /\ main(Slice(scriptArgs, 0, 77), witnessData, txHash) = 0

(***************************************************************************)
(* The snake game of the SnakeGame component.  One action per handler; the *)
(* buttons' handlers are enabled where the component renders the button.   *)
(***************************************************************************)
\* the lock script is not part of the component: nothing of it runs
ScriptNotRun ==
    /\ scriptArgs = << >>
    /\ witnessData = << >>
    /\ txHash = << >>
    /\ pc = "off"
    /\ pubkeyHashes = << >>
    /\ signatures = << >>
    /\ pubkeyIndices = << >>
    /\ signingMessageHash = << >>
    /\ recoveredKeys = << >>
    /\ recoverCalls = << >>
    /\ hashCalls = << >>
    /\ txHashLoads = 0
    /\ exitCode = NoCode
    /\ runs = 0

ComponentInit == ScriptNotRun /\ Mounted

Directions == {"UP", "DOWN", "LEFT", "RIGHT"}

\* the cells of the board
Cells == [x : 0..(GRID_SIZE - 1), y : 0..(GRID_SIZE - 1)]

\* generateFood(snake): the cells Math.random can end on, those off the snake
generateFood(body) == { c \in Cells : \A i \in 1..Len(body) : body[i] # c }

\* checkCollision(head, snake): only self collision
checkCollision(head, body) == \E i \in 1..Len(body) : body[i] = head

\* the head moved one cell in the given direction, teleported to the
\* opposite side when it leaves the board
MoveHead(head, dir) ==
    LET moved ==
            IF dir = "UP" THEN [head EXCEPT !.y = @ - 1]
            ELSE IF dir = "DOWN" THEN [head EXCEPT !.y = @ + 1]
            ELSE IF dir = "LEFT" THEN [head EXCEPT !.x = @ - 1]
            ELSE [head EXCEPT !.x = @ + 1]
        wrapX == IF moved.x < 0 THEN GRID_SIZE - 1
                 ELSE IF moved.x >= GRID_SIZE THEN 0 ELSE moved.x
        wrapY == IF moved.y < 0 THEN GRID_SIZE - 1
                 ELSE IF moved.y >= GRID_SIZE THEN 0 ELSE moved.y
    IN  [x |-> wrapX, y |-> wrapY]

\* mutant: the snake grows on food and the score is left as it is
gameLoop_NoPoints ==
    /\ gameRunning /\ ~ gameOver
    /\ LET dir == IF Len(directionQueue) > 0
                  THEN Head(directionQueue) ELSE direction
           head == MoveHead(snake[1], dir)
       IN  /\ directionQueue' =
                 IF Len(directionQueue) > 0
                 THEN Tail(directionQueue) ELSE directionQueue
           /\ applied' = dir
           /\ IF checkCollision(head, snake)
              THEN /\ gameOver' = TRUE
                   /\ gameRunning' = FALSE
                   /\ UNCHANGED << snake, food, score, direction >>
              ELSE IF head = food
              THEN /\ Len(snake) < MaxSnake
                   /\ snake' = << head >> \o snake
                   /\ food' \in generateFood(snake')
                   /\ direction' = dir
                   /\ UNCHANGED << score, gameOver, gameRunning >>
              ELSE /\ snake' = << head >> \o SubSeq(snake, 1, Len(snake) - 1)
                   /\ direction' = dir
                   /\ UNCHANGED << food, score, gameOver, gameRunning >>
    /\ UNCHANGED << script, store >>

\* gameLoop(), run by the timer that is set while the game is running and
\* not over: one tick
gameLoop ==
    /\ gameRunning /\ ~ gameOver
    /\ LET dir == IF Len(directionQueue) > 0
                  THEN Head(directionQueue) ELSE direction
           head == MoveHead(snake[1], dir)
       IN  /\ directionQueue' =
                 IF Len(directionQueue) > 0
                 THEN Tail(directionQueue) ELSE directionQueue
           /\ applied' = dir
           /\ IF checkCollision(head, snake)
              THEN /\ gameOver' = TRUE
                   /\ gameRunning' = FALSE
                   /\ UNCHANGED << snake, food, score, direction >>
              ELSE IF head = food
              THEN /\ Len(snake) < MaxSnake
                   /\ snake' = << head >> \o snake
                   /\ food' \in generateFood(snake')
                   /\ score' = score + 10
                   /\ direction' = dir
                   /\ UNCHANGED << gameOver, gameRunning >>
              ELSE /\ snake' = << head >> \o SubSeq(snake, 1, Len(snake) - 1)
                   /\ direction' = dir
                   /\ UNCHANGED << food, score, gameOver, gameRunning >>
    /\ UNCHANGED << script, store >>

\* handleKeyPress for a key that stands for newDirection (any other key
\* changes nothing)
handleKeyPress(newDirection) ==
    /\ gameRunning
    /\ LET lastDirection ==
               IF Len(directionQueue) > 0
               THEN directionQueue[Len(directionQueue)] ELSE direction
           isValidDirection ==
               \/ newDirection = "UP" /\ lastDirection # "DOWN"
               \/ newDirection = "DOWN" /\ lastDirection # "UP"
               \/ newDirection = "LEFT" /\ lastDirection # "RIGHT"
               \/ newDirection = "RIGHT" /\ lastDirection # "LEFT"
       IN  directionQueue' =
               IF isValidDirection /\ newDirection # lastDirection
               THEN IF Len(directionQueue) < 2
                    THEN Append(directionQueue, newDirection)
                    ELSE [directionQueue EXCEPT ![2] = newDirection]
               ELSE directionQueue
    /\ UNCHANGED << snake, food, direction, gameOver, score, gameRunning,
                    applied, script, store >>

KeyPress == \E newDirection \in Directions : handleKeyPress(newDirection)

\* startGame(), behind "Start Game" and "Play Again"
startGame ==
    /\ (~ gameRunning /\ ~ gameOver) \/ gameOver
    /\ directionQueue' = << >>
    /\ snake' = INITIAL_SNAKE
    /\ food' \in generateFood(INITIAL_SNAKE)
    /\ direction' = "RIGHT"
    /\ gameOver' = FALSE
    /\ score' = 0
    /\ gameRunning' = TRUE
    /\ applied' = "NONE"
    /\ UNCHANGED << script, store >>

\* toggleGame(), behind "Pause" (shown while running) and "Resume" (shown
\* while not running with a snake of more than one segment)
toggleGame ==
    /\ gameRunning \/ (~ gameRunning /\ Len(snake) > 1)
    /\ gameRunning' = ~ gameRunning
    /\ UNCHANGED << snake, food, direction, gameOver, score, directionQueue,
                    applied, script, store >>

\* resetGame(), behind "Reset"
resetGame ==
    /\ directionQueue' = << >>
    /\ snake' = INITIAL_SNAKE
    /\ food' \in generateFood(INITIAL_SNAKE)
    /\ direction' = "RIGHT"
    /\ gameOver' = FALSE
    /\ score' = 0
    /\ gameRunning' = FALSE
    /\ applied' = "NONE"
    /\ UNCHANGED << script, store >>

GameNext == gameLoop \/ KeyPress \/ startGame \/ toggleGame \/ resetGame

GameSpec == ComponentInit /\ [][GameNext]_vars

\* two directions that are opposite to each other
Opposite(a, b) ==
    << a, b >> \in { << "UP", "DOWN" >>, << "DOWN", "UP" >>,
                     << "LEFT", "RIGHT" >>, << "RIGHT", "LEFT" >> }

\* C27: the directions applied by two consecutive ticks of the game loop
\* are never opposite (UP/DOWN or LEFT/RIGHT), whatever keys were pressed in
\* between, including a third key press that replaces the second queued
\* entry: the snake never reverses onto itself.
C27_NoReversal == [][~ Opposite(applied, applied')]_vars

\* C28: gameOver implies not gameRunning in every reachable state: after a
\* self-collision has ended the game, gameRunning stays false under
\* toggleGame, key presses and ticks until startGame or resetGame.
C28_GameOverNotRunning == gameOver => ~ gameRunning

\* C30: in every reachable state of the game the score is 10 times (the
\* length of the snake minus 1): the score rises by 10 on exactly the ticks
\* on which the snake grows by one segment, and startGame and resetGame put
\* both back together.
C30_ScoreIsLength ==
    /\ [](score = 10 * (Len(snake) - 1))
    /\ [][(score' = score + 10) <=> (Len(snake') = Len(snake) + 1)]_vars
    /\ [][(score' < score \/ Len(snake') < Len(snake))
            => (score' = 0 /\ snake' = INITIAL_SNAKE)]_vars

\* a game that ended by self-collision after the snake had grown twice
C30_Witness == gameOver /\ Len(snake) = 3 /\ score = 20

(***************************************************************************)
(* The payment channel and the theme store of the SnakeGame component.     *)
(* paymentChannel.transactions, a log that is only displayed, is left out. *)
(* React commits the render of a state update before the next event is     *)
(* dispatched, so the paymentChannel a click handler reads is the current  *)
(* one.                                                                    *)
(***************************************************************************)
\* the price of every snake theme and of every board theme, by id
SNAKE_THEMES ==
    [classic |-> 0, golden |-> 15, fire |-> 25, ice |-> 20, rainbow |-> 50]
BOARD_THEMES ==
    [classic |-> 0, neon |-> 12, forest |-> 18, ocean |-> 22, space |-> 35]

\* openPaymentChannel(), behind "Open Channel" (shown while it is not open)
openPaymentChannel ==
    /\ ~ paymentChannel.isOpen
    /\ paymentChannel' =
          [paymentChannel EXCEPT !.isOpen = TRUE,
                                 !.balance = paymentChannel.capacity]
    /\ UNCHANGED << ownedSnakeThemes, ownedBoardThemes, currentSnakeTheme,
                    currentBoardTheme, showThemeStore, script, game >>

\* closePaymentChannel(), behind "Close Channel" (shown while it is open)
closePaymentChannel ==
    /\ paymentChannel.isOpen
    /\ paymentChannel' =
          [paymentChannel EXCEPT !.isOpen = FALSE, !.balance = 0]
    /\ UNCHANGED << ownedSnakeThemes, ownedBoardThemes, currentSnakeTheme,
                    currentBoardTheme, showThemeStore, script, game >>

\* mutant: the theme is sold whatever the balance is
purchaseTheme_NoBalanceTest(themeType, themeId, price) ==
    /\ paymentChannel' =
          [paymentChannel EXCEPT !.balance = paymentChannel.balance - price]
    /\ IF themeType = "snake"
       THEN /\ ownedSnakeThemes' = ownedSnakeThemes \cup {themeId}
            /\ currentSnakeTheme' = themeId
            /\ UNCHANGED << ownedBoardThemes, currentBoardTheme >>
       ELSE /\ ownedBoardThemes' = ownedBoardThemes \cup {themeId}
            /\ currentBoardTheme' = themeId
            /\ UNCHANGED << ownedSnakeThemes, currentSnakeTheme >>
    /\ UNCHANGED << showThemeStore, script, game >>

\* purchaseTheme(themeType, themeId, price); it returns false and changes
\* nothing when the balance is less than the price
purchaseTheme(themeType, themeId, price) ==
    IF paymentChannel.balance >= price
    THEN /\ paymentChannel' =
               [paymentChannel EXCEPT !.balance = paymentChannel.balance - price]
         /\ IF themeType = "snake"
            THEN /\ ownedSnakeThemes' = ownedSnakeThemes \cup {themeId}
                 /\ currentSnakeTheme' = themeId
                 /\ UNCHANGED << ownedBoardThemes, currentBoardTheme >>
            ELSE /\ ownedBoardThemes' = ownedBoardThemes \cup {themeId}
                 /\ currentBoardTheme' = themeId
                 /\ UNCHANGED << ownedSnakeThemes, currentSnakeTheme >>
         /\ UNCHANGED << showThemeStore, script, game >>
    ELSE UNCHANGED vars

\* a click on "Buy" of a snake theme: the button is there while the store is
\* shown, the channel is open and the theme is not owned
BuySnakeTheme ==
    /\ showThemeStore
    /\ paymentChannel.isOpen
    /\ \E themeId \in DOMAIN SNAKE_THEMES \ ownedSnakeThemes :
          purchaseTheme("snake", themeId, SNAKE_THEMES[themeId])

\* a click on "Buy" of a board theme
BuyBoardTheme ==
    /\ showThemeStore
    /\ paymentChannel.isOpen
    /\ \E themeId \in DOMAIN BOARD_THEMES \ ownedBoardThemes :
          purchaseTheme("board", themeId, BOARD_THEMES[themeId])

\* a click on "Themes": the store is shown or hidden
ToggleThemeStore ==
    /\ showThemeStore' = ~ showThemeStore
    /\ UNCHANGED << paymentChannel, ownedSnakeThemes, ownedBoardThemes,
                    currentSnakeTheme, currentBoardTheme, script, game >>

ChannelNext ==
    \/ openPaymentChannel
    \/ closePaymentChannel
    \/ BuySnakeTheme
    \/ BuyBoardTheme
    \/ ToggleThemeStore

ChannelSpec == ComponentInit /\ [][ChannelNext]_vars

\* C29: after any sequence of openPaymentChannel, closePaymentChannel and
\* purchaseTheme calls, each purchase testing affordability against the
\* balance of the render it was issued from, the balance of the channel is
\* never negative and never more than the capacity of the channel.
C29_BalanceInRange ==
    /\ paymentChannel.balance >= 0
    /\ paymentChannel.balance <= paymentChannel.capacity

\* themes were bought until none of those left can be paid for
C29_Witness ==
    /\ paymentChannel.isOpen
    /\ paymentChannel.balance < paymentChannel.capacity
    /\ DOMAIN SNAKE_THEMES \ ownedSnakeThemes # {}
    /\ DOMAIN BOARD_THEMES \ ownedBoardThemes # {}
    /\ \A themeId \in DOMAIN SNAKE_THEMES \ ownedSnakeThemes :
          SNAKE_THEMES[themeId] > paymentChannel.balance
    /\ \A themeId \in DOMAIN BOARD_THEMES \ ownedBoardThemes :
          BOARD_THEMES[themeId] > paymentChannel.balance

====
